---- MODULE Spec2Model ----
(***************************************************************************)
(* Render progress simulator of the VideoCreator component                 *)
(* (frontend/src/components/AnimatedAvatar.jsx): the Stage Table STAGES,   *)
(* the progress driver startProgressAnimation / tick / interpolate, the    *)
(* reconciler stopProgress, and the render handler that drives them.       *)
(*                                                                         *)
(* Time is kept as ages: every Date.now() difference the code computes is  *)
(* a clock that is reset where the code stores Date.now() and that grows   *)
(* when time passes; a pending setTimeout is a record with the time that   *)
(* remains before it is due.  Time passes only in TimerFires, by the       *)
(* remaining time of the timeout that fires plus its lateness.             *)
(*                                                                         *)
(* The render handler of the earlier VideoCreator, which steps the percent *)
(* with setInterval, is modelled on the same component state (SpecOld).    *)
(***************************************************************************)
EXTENDS Integers, Sequences, FiniteSets, TLC

\* ------------------------------------------------------------------ bounds
MaxLate == 1        \* a timeout fires 0..MaxLate lateness units after it is due
LateUnit == 40      \* one lateness unit, in ms
MaxScenes == 1      \* scenes the list may hold when a request is sent
MaxList == 3        \* scenes the list may hold while it is edited
MaxFetches == 2     \* animation fetches in flight at once
MaxClock == 2400    \* the age of renderStartRef saturates here, in ms

\* --------------------------------------------------------------- constants
InterpolateDelay == 80
TickDelay == 100
StartDelay == 200

CompleteLabel == "Complete!"

STAGESTo100 ==
  << [pct |-> 5,  label |-> "Initializing...",           ms |-> 800],
     [pct |-> 12, label |-> "Generating audio (TTS)...", ms |-> 3000],
     [pct |-> 20, label |-> "Running Wav2Lip...",        ms |-> 8000],
     [pct |-> 38, label |-> "Animating avatar...",       ms |-> 8000],
     [pct |-> 50, label |-> "Loading alpha mask...",     ms |-> 2000],
     [pct |-> 62, label |-> "Compositing frames...",     ms |-> 5000],
     [pct |-> 75, label |-> "Encoding video...",         ms |-> 7000],
     [pct |-> 88, label |-> "Encoding audio...",         ms |-> 4000],
     [pct |-> 100, label |-> "Finalizing...",            ms |-> 3000] >>

STAGES ==
  << [pct |-> 5,  label |-> "Initializing...",           ms |-> 800],
     [pct |-> 12, label |-> "Generating audio (TTS)...", ms |-> 3000],
     [pct |-> 20, label |-> "Running Wav2Lip...",        ms |-> 8000],
     [pct |-> 38, label |-> "Animating avatar...",       ms |-> 8000],
     [pct |-> 50, label |-> "Loading alpha mask...",     ms |-> 2000],
     [pct |-> 62, label |-> "Compositing frames...",     ms |-> 5000],
     [pct |-> 75, label |-> "Encoding video...",         ms |-> 7000],
     [pct |-> 88, label |-> "Encoding audio...",         ms |-> 4000],
     [pct |-> 96, label |-> "Finalizing...",             ms |-> 3000] >>

\* Stage Tables the driver is exercised with besides STAGES: the two-entry
\* table of the specification's example, a one-entry table, and a
\* three-entry table that ends below 100.
ExampleTable ==
  << [pct |-> 10,  label |-> "A", ms |-> 1000],
     [pct |-> 100, label |-> "B", ms |-> 1000] >>

OneEntryTable == << [pct |-> 50, label |-> "A", ms |-> 1000] >>

ShortTable ==
  << [pct |-> 5,  label |-> "A", ms |-> 160],
     [pct |-> 40, label |-> "B", ms |-> 240],
     [pct |-> 96, label |-> "C", ms |-> 160] >>

Tables == {ExampleTable, OneEntryTable, ShortTable}

\* Degenerate Stage Tables: the empty table, and tables with an entry whose
\* duration is 0.
EmptyTable == << >>

ZeroFirstTable ==
  << [pct |-> 5,  label |-> "A", ms |-> 0],
     [pct |-> 40, label |-> "B", ms |-> 240],
     [pct |-> 96, label |-> "C", ms |-> 160] >>

ZeroMidTable ==
  << [pct |-> 5,  label |-> "A", ms |-> 160],
     [pct |-> 40, label |-> "B", ms |-> 0],
     [pct |-> 96, label |-> "C", ms |-> 160] >>

DegenerateTables == {EmptyTable, ZeroFirstTable, ZeroMidTable}

NoInterval == -1

Null == -1

\* The percent that is not a number: Math.round(NaN), shown as "NaN%".
NaN == -1

Lates == {LateUnit * k : k \in 0..MaxLate}

VARIABLES
  table,             \* the Stage Table the driver walks
  scenes,            \* the scene list: records with id and background_path
  loading, rendering, videoUrl, status,
  progress, stage,   \* the displayed percent and label
  progressTimerRef,  \* handle of the last timeout set, 0 for null
  sinceStart,        \* Date.now() - renderStartRef.current, saturating
  timers,            \* pending timeouts
  stageIdx,          \* stageIdx of every run whose timer chain is alive
  req,               \* position of the render handler: idle, fetch, json
  bgReq,             \* the split or genImages request in flight, or idle
  bgScenes,          \* the scene list the genImages handler captured
  threw,             \* a driver callback ended in a TypeError
  tickPct,           \* history: last percent written by each live run
  starts,            \* history: 1 after a start() with no timeout pending, 2
                     \* after a start() that found one pending
  stopCalls,         \* history: stopProgress calls since the last start()
  stopArg,           \* history: argument of the last stopProgress call
  stopFrom,          \* history: percent shown when stopProgress was called
  startFrom,         \* history: percent shown when the last start() was called
  outcome,           \* history: how the last render request ended
  iv,                \* earlier VideoCreator: the counter i of the live
                     \* interval of render, NoInterval when there is none
  sets,              \* earlier VideoCreator, history: what the continuation
                     \* of render passed to setProgress and setStage, in order
  draggedIdx,        \* 0-based index of the scene being dragged, or Null
  project, script,   \* the project name and the script (the state text)
  settings,          \* the settings that save writes, one field each
  selectedMusic,     \* "null" or the selected track
  file,              \* the project file save wrote last, << >> before
  voices, voicesLoading, voicesLoaded,
  voicesReq,         \* voices requests in flight
  voicesOutcome,     \* history: how the last voices request ended
  avatarStyle,       \* AnimatedAvatar: the avatarStyle prop
  animationData, avatarLoading, avatarError,
  fetches,           \* AnimatedAvatar: animation fetches in flight
  stockResults, loadingStock,
  stockReq,          \* stock searches in flight
  upReq              \* the background uploads in flight, each with the index
                     \* and the scene list its handler captured

vars == << table, scenes, loading, rendering, videoUrl, status, progress,
           stage, progressTimerRef, sinceStart, timers, stageIdx, req, bgReq,
           bgScenes, threw, tickPct, starts, stopCalls, stopArg, stopFrom,
           startFrom, outcome, iv, sets, draggedIdx, project, script, settings,
           selectedMusic, file, voices, voicesLoading, voicesLoaded,
           voicesReq, voicesOutcome, avatarStyle, animationData,
           avatarLoading, avatarError, fetches, stockResults, loadingStock,
           stockReq, upReq >>

oldVars == << iv, sets >>

uiVars == << draggedIdx >>

projVars == << project, script, settings, selectedMusic, file >>

voiceVars == << voices, voicesLoading, voicesLoaded, voicesReq,
               voicesOutcome >>

avatarVars == << avatarStyle, animationData, avatarLoading, avatarError,
                fetches >>

mediaVars == << stockResults, loadingStock, stockReq, upReq >>

restVars == << projVars, voiceVars, avatarVars, mediaVars >>

compVars == << scenes, loading, rendering, videoUrl, status, req, outcome,
              bgReq, bgScenes >>

driverVars == << progress, stage, progressTimerRef, sinceStart, timers,
                 stageIdx, threw, tickPct, starts, stopCalls, stopArg,
                 stopFrom, startFrom >>

\* ----------------------------------------------------------------- helpers
\* startProgressAnimation has run at least once.
Started == progressTimerRef # 0

Min(a, b) == IF a <= b THEN a ELSE b
Max(a, b) == IF a >= b THEN a ELSE b

Restrict(f, S) == [x \in S |-> f[x]]

LiveRuns(ts) == {t.run : t \in ts}

\* setTimeout returns a handle no pending timeout and no stored ref carries.
FreshHandle(ts) ==
  LET used == {t.id : t \in ts} \cup {progressTimerRef}
  IN  CHOOSE n \in 1..(Cardinality(used) + 1) :
        n \notin used /\ \A m \in 1..(n - 1) : m \in used

NewRun ==
  CHOOSE n \in 1..(Cardinality(DOMAIN stageIdx) + 1) :
    n \notin DOMAIN stageIdx /\ \A m \in 1..(n - 1) : m \in DOMAIN stageIdx

\* d ms pass for a pending timeout.
Elapse(t, d) ==
  [t EXCEPT !.remaining = Max(0, t.remaining - d),
            !.age = IF t.cb = "interpolate" THEN t.age + d ELSE t.age]

\* Variants of the interpolation: one that runs from next.pct down to
\* current.pct, and one that runs from 0 up to current.pct.
RoundedPctReversed(current, next, elapsed) ==
  LET e == Min(elapsed, current.ms)
  IN  (2 * (next.pct * current.ms - (next.pct - current.pct) * e)
         + current.ms) \div (2 * current.ms)

RoundedPctFromZero(current, next, elapsed) ==
  LET e == Min(elapsed, current.ms)
  IN  (2 * current.pct * e + current.ms) \div (2 * current.ms)

\* A variant without the Math.min that caps frac at 1.
RoundedPctNoMin(current, next, elapsed) ==
  (2 * (current.pct * current.ms + (next.pct - current.pct) * elapsed)
     + current.ms) \div (2 * current.ms)

\* A variant that divides by the duration of the entry being approached.
RoundedPctNextMs(current, next, elapsed) ==
  LET e == Min(elapsed, next.ms)
  IN  (2 * (current.pct * next.ms + (next.pct - current.pct) * e)
         + next.ms) \div (2 * next.ms)

\* Math.round(current.pct + (next.pct - current.pct) * frac) with
\* frac = Math.min(elapsed / current.ms, 1).  With current.ms = 0 the
\* quotient is 0 / 0 = NaN when elapsed is 0, and frac and the percent are
\* NaN; it is Infinity when elapsed is positive, and frac is 1.
RoundedPct(current, next, elapsed) ==
  IF current.ms = 0
  THEN IF elapsed = 0 THEN NaN ELSE next.pct
  ELSE LET e == Min(elapsed, current.ms)
       IN  (2 * (current.pct * current.ms + (next.pct - current.pct) * e)
              + current.ms) \div (2 * current.ms)

\* --------------------------------------------------------- progress driver
\* What interpolate stores in progressTimerRef.current when setTimeout has
\* returned the handle id.
storedHandleStale(id) == progressTimerRef

storedHandle(id) == id

\* stageIdx++ of run r.
nextIdxStuck(r) == stageIdx[r]

nextIdxSkip(r) == stageIdx[r] + 2

nextIdx(r) == stageIdx[r] + 1

\* interpolate() of run r for the stage with 0-based index cur, elapsed ms
\* after that stage began; rest are the other pending timeouts.  The age of
\* a pending interpolate is Date.now() - stageStart; the age of the tick that
\* interpolate schedules records the elapsed time at which the stage ended.
interpolate(r, cur, elapsed, rest) ==
  IF cur + 2 > Len(table)
  THEN \* next is undefined: next.pct throws before anything is written
       /\ threw' = TRUE
       /\ timers' = rest
       /\ stageIdx' = Restrict(stageIdx, LiveRuns(rest))
       /\ tickPct' = Restrict(tickPct, LiveRuns(rest))
       /\ UNCHANGED << progress, stage, progressTimerRef >>
  ELSE
    LET current == table[cur + 1]
        next == table[cur + 2]
        pct == RoundedPct(current, next, elapsed)
        id == FreshHandle(rest)
        idx == nextIdx(r)
    IN  /\ progress' = pct
        /\ UNCHANGED threw
        /\ IF elapsed < current.ms
           THEN /\ timers' = rest \cup
                     {[id |-> id, run |-> r, cb |-> "interpolate", cur |-> cur,
                       age |-> elapsed, remaining |-> InterpolateDelay]}
                /\ progressTimerRef' = storedHandle(id)
                /\ tickPct' = [tickPct EXCEPT ![r] = pct]
                /\ UNCHANGED << stage, stageIdx >>
           ELSE IF idx < Len(table)
                THEN /\ stage' = table[idx + 1].label
                     /\ timers' = rest \cup
                          {[id |-> id, run |-> r, cb |-> "tick", cur |-> 0,
                            age |-> elapsed, remaining |-> TickDelay]}
                     /\ progressTimerRef' = storedHandle(id)
                     /\ stageIdx' = [stageIdx EXCEPT ![r] = idx]
                     /\ tickPct' = [tickPct EXCEPT ![r] = pct]
                ELSE /\ timers' = rest
                     /\ stageIdx' = Restrict(stageIdx, LiveRuns(rest))
                     /\ tickPct' = Restrict(tickPct, LiveRuns(rest))
                     /\ UNCHANGED << stage, progressTimerRef >>

\* The guard of tick: the run has reached the last entry of the table.
lastStageOffByOne(r) == stageIdx[r] >= Len(table)

lastStageEarly(r) == stageIdx[r] >= Len(table) - 2

lastStage(r) == stageIdx[r] >= Len(table) - 1

tick(r, rest) ==
  IF lastStage(r)
  THEN /\ timers' = rest
       /\ stageIdx' = Restrict(stageIdx, LiveRuns(rest))
       /\ tickPct' = Restrict(tickPct, LiveRuns(rest))
       /\ UNCHANGED << progress, stage, progressTimerRef, threw >>
  ELSE interpolate(r, stageIdx[r], 0, rest)

\* What startProgressAnimation passes to setProgress.
startPercentKeep == progress

startPercent == 0

startProgressAnimation ==
  LET r == NewRun
      id == FreshHandle(timers)
  IN  /\ sinceStart' = 0
      /\ progress' = startPercent
      /\ startFrom' = progress
      /\ starts' = IF timers = {} THEN 1 ELSE 2
      /\ IF Len(table) = 0
         THEN \* STAGES[0] is undefined: STAGES[0].label throws
              /\ threw' = TRUE
              /\ UNCHANGED << stage, stageIdx, tickPct, timers,
                              progressTimerRef >>
         ELSE /\ stage' = table[1].label
              /\ stageIdx' = stageIdx @@ (r :> 0)
              /\ tickPct' = tickPct @@ (r :> 0)
              /\ timers' = timers \cup
                   {[id |-> id, run |-> r, cb |-> "tick", cur |-> 0,
                     age |-> 0, remaining |-> StartDelay]}
              /\ progressTimerRef' = id
              /\ threw' = FALSE

\* clearTimeout(id) on the pending timeouts ts.
clearTimeoutNoop(ts, id) == ts

clearTimeout(ts, id) == {t \in ts : t.id # id}

\* What stopProgress(success) passes to setProgress and to setStage.
stopPercentStuck(success) == IF success THEN 100 ELSE progress

stopPercentShort(success) == IF success THEN 99 ELSE 0

stopPercent(success) == IF success THEN 100 ELSE 0

stopLabelKeep(success) == IF success THEN CompleteLabel ELSE stage

stopLabel(success) == IF success THEN CompleteLabel ELSE ""

stopProgress(success) ==
  LET left == IF progressTimerRef # 0
              THEN clearTimeout(timers, progressTimerRef)
              ELSE timers
  IN  /\ timers' = left
      /\ stageIdx' = Restrict(stageIdx, LiveRuns(left))
      /\ tickPct' = Restrict(tickPct, LiveRuns(left))
      /\ progress' = stopPercent(success)
      /\ stage' = stopLabel(success)
      /\ stopCalls' = stopCalls + 1
      /\ stopArg' = success
      /\ stopFrom' = progress
      /\ UNCHANGED << progressTimerRef, sinceStart, threw, starts, startFrom >>

\* A pending timeout fires, late ms after it is due; timeouts fire in the
\* order in which they fall due.
TimerFires(t, late) ==
  /\ t \in timers
  /\ \A u \in timers : t.remaining <= u.remaining
  /\ LET d == t.remaining + late
         rest == {Elapse(u, d) : u \in timers \ {t}}
     IN  /\ sinceStart' = Min(sinceStart + d, MaxClock)
         /\ IF t.cb = "tick"
            THEN tick(t.run, rest)
            ELSE interpolate(t.run, t.cur, t.age + d, rest)
  /\ UNCHANGED << table, starts, stopCalls, stopArg, stopFrom, startFrom >>
  /\ UNCHANGED compVars
  /\ UNCHANGED oldVars
  /\ UNCHANGED uiVars
  /\ UNCHANGED restVars

Timeout == \E t \in timers, late \in Lates : TimerFires(t, late)

\* ------------------------------------------------------------ scene list
\* A scene as add creates it; of its fields the model keeps the id (the n
\* of scene_n) and the background_path ("" or "img").
Scene(n) == [id |-> n, background_path |-> ""]

\* The id that add and dup give to the scene they create.
newId == Len(scenes) + 1

add ==
  /\ Len(scenes) < MaxList
  /\ scenes' = Append(scenes, Scene(newId))
  /\ UNCHANGED << table, loading, rendering, videoUrl, status, req, outcome,
                  bgReq, bgScenes >>
  /\ UNCHANGED driverVars
  /\ UNCHANGED oldVars
  /\ UNCHANGED uiVars
  /\ UNCHANGED restVars

\* ------------------------------------------------- split and genImages
\* The two other handlers that write loading; their buttons, like the
\* Render button, are disabled while loading.
split(text) ==
  /\ ~loading
  /\ IF text = ""
     THEN /\ status' = "Enter text first"
          /\ UNCHANGED << loading, bgReq >>
     ELSE /\ loading' = TRUE
          /\ status' = "Splitting..."
          /\ bgReq' = "split"
  /\ UNCHANGED << table, scenes, rendering, videoUrl, req, outcome, bgScenes >>
  /\ UNCHANGED driverVars
  /\ UNCHANGED oldVars
  /\ UNCHANGED uiVars
  /\ UNCHANGED restVars

\* The split request ends: with n scenes, with an error payload (n = -1), or
\* with an exception (n = -2).
splitDone(n) ==
  /\ bgReq = "split"
  /\ IF n >= 0
     THEN scenes' = [i \in 1..n |-> Scene(i)] /\ status' = "Split"
     ELSE status' = (IF n = -1 THEN "Failed" ELSE "Error") /\ UNCHANGED scenes
  /\ loading' = FALSE
  /\ bgReq' = "idle"
  /\ UNCHANGED << table, rendering, videoUrl, req, outcome, bgScenes >>
  /\ UNCHANGED driverVars
  /\ UNCHANGED oldVars
  /\ UNCHANGED uiVars
  /\ UNCHANGED restVars

genImages ==
  /\ ~loading
  /\ Len(scenes) # 0
  /\ loading' = TRUE
  /\ status' = "Generating images..."
  /\ bgReq' = "genImages"
  /\ bgScenes' = scenes
  /\ UNCHANGED << table, scenes, rendering, videoUrl, req, outcome >>
  /\ UNCHANGED driverVars
  /\ UNCHANGED oldVars
  /\ UNCHANGED uiVars
  /\ UNCHANGED restVars

Ids(list) == {list[i].id : i \in 1..Len(list)}

\* upd.findIndex(s => s.id === id), 1-based; 0 when no scene has that id.
findIndex(upd, id) ==
  IF \E i \in 1..Len(upd) : upd[i].id = id
  THEN CHOOSE i \in 1..Len(upd) :
         upd[i].id = id /\ \A j \in 1..(i - 1) : upd[j].id # id
  ELSE 0

\* The list upd after the forEach over data.images: ok are the ids of the
\* images that succeeded.
withImages(upd, ok) ==
  [i \in 1..Len(upd) |->
     IF upd[i].id \in ok /\ findIndex(upd, upd[i].id) = i
     THEN [upd[i] EXCEPT !.background_path = "img"]
     ELSE upd[i]]

\* The genImages request ends: with data.images (the handler then sets the
\* scene list it captured when it was called, with the images that
\* succeeded), without, or with an exception.
genImagesDone(result, ok) ==
  /\ bgReq = "genImages"
  /\ result \in {"images", "none", "reject"}
  /\ ok \subseteq Ids(bgScenes)
  /\ IF result = "images"
     THEN scenes' = withImages(bgScenes, ok) /\ status' = "Generated"
     ELSE IF result = "reject"
          THEN status' = "Error" /\ UNCHANGED scenes
          ELSE UNCHANGED << scenes, status >>
  /\ loading' = FALSE
  /\ bgReq' = "idle"
  /\ bgScenes' = << >>
  /\ UNCHANGED << table, rendering, videoUrl, req, outcome >>
  /\ UNCHANGED driverVars
  /\ UNCHANGED oldVars
  /\ UNCHANGED uiVars
  /\ UNCHANGED restVars

\* ---------------------------------------------------------------- render
\* The Render button is disabled while loading.
renderNoScenes ==
  /\ ~loading
  /\ Len(scenes) = 0
  /\ status' = "Add scenes first"
  /\ UNCHANGED << table, scenes, loading, rendering, videoUrl, req, outcome,
                  bgReq, bgScenes >>
  /\ UNCHANGED driverVars
  /\ UNCHANGED oldVars
  /\ UNCHANGED uiVars
  /\ UNCHANGED restVars

render ==
  /\ ~loading
  /\ Len(scenes) # 0
  /\ loading' = TRUE
  /\ rendering' = TRUE
  /\ videoUrl' = "null"
  /\ status' = "Rendering..."
  /\ startProgressAnimation
  /\ req' = "fetch"
  /\ stopCalls' = 0
  /\ stopArg' = FALSE
  /\ stopFrom' = 0
  /\ outcome' = "pending"
  /\ UNCHANGED << table, scenes, bgReq, bgScenes >>
  /\ UNCHANGED oldVars
  /\ UNCHANGED uiVars
  /\ UNCHANGED restVars

\* fetchAPI resolved: the handler goes on to await res.json().
fetchResolved ==
  /\ req = "fetch"
  /\ req' = "json"
  /\ UNCHANGED << table, scenes, loading, rendering, videoUrl, status,
                  outcome, bgReq, bgScenes >>
  /\ UNCHANGED driverVars
  /\ UNCHANGED oldVars
  /\ UNCHANGED uiVars
  /\ UNCHANGED restVars

\* The catch and finally blocks: fetchAPI rejected (network failure),
\* res.json() rejected (unparsable body), or data.filename threw (data null).
renderCaught(why) ==
  /\ \/ req = "fetch" /\ why = "network"
     \/ req = "json" /\ why \in {"unparsable", "null"}
  /\ stopProgress(FALSE)
  /\ status' = "Error"
  /\ loading' = FALSE
  /\ rendering' = FALSE
  /\ req' = "idle"
  /\ outcome' = why
  /\ UNCHANGED << table, scenes, videoUrl, bgReq, bgScenes >>
  /\ UNCHANGED oldVars
  /\ UNCHANGED uiVars
  /\ UNCHANGED restVars

\* !!data.filename
truthyAlways(data) == TRUE

truthy(data) == data = "filename"

\* res.json() resolved with a payload: one that carries a filename, or an
\* error payload without one.
renderResponse(data) ==
  /\ req = "json"
  /\ data \in {"filename", "error"}
  /\ stopProgress(truthy(data))
  /\ IF truthy(data)
     THEN videoUrl' = "file" /\ status' = "Video ready!"
     ELSE status' = "Failed" /\ UNCHANGED videoUrl
  /\ loading' = FALSE
  /\ rendering' = FALSE
  /\ req' = "idle"
  /\ outcome' = data
  /\ UNCHANGED << table, scenes, bgReq, bgScenes >>
  /\ UNCHANGED oldVars
  /\ UNCHANGED uiVars
  /\ UNCHANGED restVars

\* ---------------------------------------------------------- specifications
\* The initial values of useState.
defaultSettings ==
  [subtitles |-> TRUE, subtitleStyle |-> "bottom", fontSize |-> 24,
   useElevenLabs |-> FALSE, autoAI |-> FALSE, musicVolume |-> 10,
   useAvatar |-> FALSE, avatarPosition |-> "bottom-right",
   avatarSize |-> "medium", avatarStyle |-> "male"]

ProjectDefaults ==
  /\ project = "my_video"
  /\ script = ""
  /\ settings = defaultSettings
  /\ selectedMusic = "null"

InitCore ==
  /\ scenes = << >>
  /\ loading = FALSE
  /\ rendering = FALSE
  /\ videoUrl = "null"
  /\ status = ""
  /\ progress = 0
  /\ stage = ""
  /\ progressTimerRef = 0
  /\ sinceStart = 0
  /\ timers = {}
  /\ stageIdx = << >>
  /\ req = "idle"
  /\ bgReq = "idle"
  /\ bgScenes = << >>
  /\ threw = FALSE
  /\ tickPct = << >>
  /\ starts = 0
  /\ stopCalls = 0
  /\ stopArg = FALSE
  /\ stopFrom = 0
  /\ startFrom = 0
  /\ outcome = "none"
  /\ iv = NoInterval
  /\ sets = << >>
  /\ draggedIdx = Null
  /\ file = << >>
  /\ voices = << >>
  /\ voicesLoading = FALSE
  /\ voicesLoaded = FALSE
  /\ voicesReq = 0
  /\ voicesOutcome = "none"
  /\ avatarStyle = "business"
  /\ animationData = "null"
  /\ avatarLoading = TRUE
  /\ avatarError = FALSE
  /\ fetches = << [style |-> "business", current |-> TRUE] >>
  /\ stockResults = << >>
  /\ loadingStock = FALSE
  /\ stockReq = 0
  /\ upReq = << >>

InitCommon ==
  /\ ProjectDefaults
  /\ InitCore

\* The VideoCreator component: STAGES, driven by the Render button.
Init == table = STAGES /\ InitCommon

Next ==
  \/ Len(scenes) < MaxScenes /\ add
  \/ \E text \in {"", "script"} : split(text)
  \/ \E n \in (-2)..MaxScenes : splitDone(n)
  \/ genImages
  \/ \E result \in {"images", "none", "reject"}, ok \in SUBSET Ids(bgScenes) :
       genImagesDone(result, ok)
  \/ renderNoScenes
  \/ render
  \/ fetchResolved
  \/ \E why \in {"network", "unparsable", "null"} : renderCaught(why)
  \/ \E data \in {"filename", "error"} : renderResponse(data)
  \/ Timeout

Spec == Init /\ [][Next]_vars

\* The component with the event loop of the browser, which runs every
\* timeout that is due; nothing obliges the render request to end.
FairSpec == Spec /\ WF_vars(Timeout)

\* ------------------------------------------------------- scene editing
\* Indices are 0-based, as in the code; list[i + 1] is the element at index i.
Indices(list) == 0..(Len(list) - 1)

\* What reading list[i] gives when i is not an index of the list.
Undefined == [id |-> -1, background_path |-> "undefined"]

At(list, i) == IF i \in Indices(list) THEN list[i + 1] ELSE Undefined

\* list.splice(i, 1) for i >= 0.
RemoveAt(list, i) ==
  IF i \in Indices(list)
  THEN [k \in 1..(Len(list) - 1) |-> IF k <= i THEN list[k] ELSE list[k + 1]]
  ELSE list

\* list.splice(i, 0, x) for i >= 0: an i past the end appends.
InsertAt(list, i, x) ==
  LET at == Min(i, Len(list))
  IN  [k \in 1..(Len(list) + 1) |->
         IF k <= at THEN list[k] ELSE IF k = at + 1 THEN x ELSE list[k - 1]]

\* The scene cards render: with an undefined element in the list the
\* expression s.id throws while rendering and React unmounts the component.
Mounted == \A i \in 1..Len(scenes) : scenes[i] # Undefined

\* The handlers of the scene cards; they are not disabled while loading.
\* (variant: the scene handlers reset the progress state)
sceneFrameResets ==
  /\ Mounted
  /\ UNCHANGED restVars
  /\ UNCHANGED << table, loading, rendering, videoUrl, req, outcome, bgReq,
                  bgScenes >>
  /\ progress' = 0
  /\ stage' = ""
  /\ UNCHANGED << progressTimerRef, sinceStart, timers, stageIdx, threw,
                  tickPct, starts, stopCalls, stopArg, stopFrom, startFrom >>
  /\ UNCHANGED oldVars

sceneFrame ==
  /\ Mounted
  /\ UNCHANGED restVars
  /\ UNCHANGED << table, loading, rendering, videoUrl, req, outcome, bgReq,
                  bgScenes >>
  /\ UNCHANGED driverVars
  /\ UNCHANGED oldVars

del(idx) ==
  /\ idx \in Indices(scenes)
  /\ scenes' = RemoveAt(scenes, idx)
  /\ status' = "Scene deleted"
  /\ UNCHANGED draggedIdx
  /\ sceneFrame

dup(idx) ==
  /\ idx \in Indices(scenes)
  /\ Len(scenes) < MaxList
  /\ scenes' = InsertAt(scenes, idx + 1, [scenes[idx + 1] EXCEPT !.id = newId])
  /\ status' = "Scene duplicated"
  /\ UNCHANGED draggedIdx
  /\ sceneFrame

dragStart(idx) ==
  /\ idx \in Indices(scenes)
  /\ draggedIdx' = idx
  /\ UNCHANGED << scenes, status >>
  /\ sceneFrame

dragOver(idx) ==
  /\ idx \in Indices(scenes)
  /\ IF draggedIdx = Null \/ draggedIdx = idx
     THEN UNCHANGED << scenes, draggedIdx >>
     ELSE /\ scenes' = InsertAt(RemoveAt(scenes, draggedIdx), idx,
                                At(scenes, draggedIdx))
          /\ draggedIdx' = idx
  /\ UNCHANGED status
  /\ sceneFrame

dragEnd ==
  /\ draggedIdx' = Null
  /\ UNCHANGED << scenes, status >>
  /\ sceneFrame

\* The scene list under its handlers and the genImages request, which is
\* sent with at most MaxScenes scenes.  The browser sends no dragstart
\* between a dragstart and its dragend.
NextScenes ==
  \/ Mounted /\ add
  \/ \E idx \in 0..(MaxList - 1) : del(idx)
  \/ \E idx \in 0..(MaxList - 1) : dup(idx)
  \/ \E idx \in 0..(MaxList - 1) : draggedIdx = Null /\ dragStart(idx)
  \/ \E idx \in 0..(MaxList - 1) : dragOver(idx)
  \/ dragEnd
  \/ Mounted /\ Len(scenes) <= MaxScenes /\ genImages
  \/ \E result \in {"images", "none", "reject"},
        ok \in SUBSET Ids(bgScenes) : Mounted /\ genImagesDone(result, ok)

SpecScenes == Init /\ [][NextScenes]_vars

\* ------------------------------------------------------ save and load
\* The values the controls of the settings panel can produce (some of them).
ProjectNames == {"", "my_video", "demo"}

Scripts == {"", "One. Two."}

Settings ==
  [subtitles : BOOLEAN, subtitleStyle : {"bottom", "top"},
   fontSize : {8, 24}, useElevenLabs : BOOLEAN, autoAI : BOOLEAN,
   musicVolume : {0, 10, 55}, useAvatar : BOOLEAN,
   avatarPosition : {"bottom-right", "top-left"},
   avatarSize : {"medium", "large"}, avatarStyle : {"male", "female"}]

Tracks == {"null", "track"}

\* v || dflt for a string v and for a number v.
orString(v, dflt) == IF v = "" THEN dflt ELSE v

orNumber(v, dflt) == IF v = 0 \/ v = NaN THEN dflt ELSE v

\* What neither save nor load touches.
projectFrame ==
  /\ UNCHANGED << table, loading, rendering, videoUrl, req, outcome, bgReq,
                  bgScenes >>
  /\ UNCHANGED driverVars
  /\ UNCHANGED oldVars
  /\ UNCHANGED uiVars
  /\ UNCHANGED voiceVars
  /\ UNCHANGED avatarVars
  /\ UNCHANGED mediaVars

\* The Save button is disabled while the scene list is empty.  The file is
\* JSON.stringify of d; the values of d are strings, booleans, whole numbers,
\* null and arrays of plain objects, which JSON.parse gives back unchanged.
save ==
  /\ Len(scenes) # 0
  /\ file' = << [project_name |-> project, settings |-> settings,
                 script |-> script, scenes |-> scenes,
                 music |-> selectedMusic] >>
  /\ status' = "Saved!"
  /\ UNCHANGED << project, script, settings, selectedMusic, scenes >>
  /\ projectFrame

\* load of the file save wrote: r.onload with d = JSON.parse of it.
load ==
  /\ file # << >>
  /\ LET d == file[1]
     IN  /\ project' = orString(d.project_name, "my_video")
         /\ settings' =
              [subtitles |-> d.settings.subtitles,
               subtitleStyle |-> orString(d.settings.subtitleStyle, "bottom"),
               fontSize |-> orNumber(d.settings.fontSize, 24),
               useElevenLabs |-> d.settings.useElevenLabs,
               autoAI |-> d.settings.autoAI,
               musicVolume |-> orNumber(d.settings.musicVolume, 10),
               useAvatar |-> d.settings.useAvatar,
               avatarPosition |->
                 orString(d.settings.avatarPosition, "bottom-right"),
               avatarSize |-> orString(d.settings.avatarSize, "medium"),
               avatarStyle |-> orString(d.settings.avatarStyle, "male")]
         /\ script' = d.script
         /\ scenes' = d.scenes
         /\ selectedMusic' = d.music
  /\ status' = "Loaded!"
  /\ UNCHANGED file
  /\ projectFrame

\* The page is loaded again: the state is the initial one; the saved file
\* stays on disk.
reload ==
  /\ project' = "my_video"
  /\ script' = ""
  /\ settings' = defaultSettings
  /\ selectedMusic' = "null"
  /\ scenes' = << >>
  /\ status' = ""
  /\ UNCHANGED file
  /\ projectFrame

\* A project as the controls can have left it, saved, and loaded again.
InitProject ==
  /\ table = STAGES
  /\ InitCore
  /\ project \in ProjectNames
  /\ script \in Scripts
  /\ settings \in Settings
  /\ selectedMusic \in Tracks

NextProject ==
  \/ Len(scenes) < MaxScenes /\ add
  \/ save
  \/ load
  \/ reload

SpecProject == InitProject /\ [][NextProject]_vars

\* --------------------------------------------------------------- voices
\* What the voices handlers leave alone.
voiceFrame ==
  /\ UNCHANGED << table, scenes, loading, rendering, videoUrl, req, outcome,
                  bgReq, bgScenes >>
  /\ UNCHANGED << project, script, selectedMusic, file >>
  /\ UNCHANGED driverVars
  /\ UNCHANGED oldVars
  /\ UNCHANGED uiVars
  /\ UNCHANGED avatarVars
  /\ UNCHANGED mediaVars

\* loadVoices up to its first await; msg is what it passes to setStatus.
loadVoicesCall(msg) ==
  IF voicesLoading \/ voicesLoaded
  THEN UNCHANGED << voicesLoading, voicesReq, voicesOutcome, status >>
  ELSE /\ voicesLoading' = TRUE
       /\ voicesReq' = voicesReq + 1
       /\ voicesOutcome' = "pending"
       /\ status' = msg

loadVoices == loadVoicesCall("Loading voices...")

toggleElevenLabs(enabled) ==
  /\ settings' = [settings EXCEPT !.useElevenLabs = enabled]
  /\ IF enabled /\ ~voicesLoaded /\ ~voicesLoading
     THEN loadVoices
     ELSE UNCHANGED << voicesLoading, voicesReq, voicesOutcome, status >>
  /\ UNCHANGED << voices, voicesLoaded >>
  /\ voiceFrame

\* A voices request ends: with success and a voice list, with a payload
\* without them, or with an exception.
loadVoicesDone(result) ==
  /\ voicesReq > 0
  /\ result \in {"voices", "invalid", "reject"}
  /\ IF result = "voices"
     THEN /\ voices' = << "voice" >>
          /\ voicesLoaded' = TRUE
          /\ status' = "Loaded voices"
     ELSE /\ voicesLoaded' = FALSE
          /\ status' = "Voice loading failed"
          /\ UNCHANGED voices
  /\ voicesLoading' = FALSE
  /\ voicesReq' = voicesReq - 1
  /\ voicesOutcome' = result
  /\ UNCHANGED settings
  /\ voiceFrame

\* The earlier VideoCreator: loadVoices sets no status, and takes every
\* payload as the voice list.
loadVoicesOld == loadVoicesCall(status)

toggleElevenLabsOld(enabled) ==
  /\ settings' = [settings EXCEPT !.useElevenLabs = enabled]
  /\ IF enabled /\ ~voicesLoaded /\ ~voicesLoading
     THEN loadVoicesOld
     ELSE UNCHANGED << voicesLoading, voicesReq, voicesOutcome, status >>
  /\ UNCHANGED << voices, voicesLoaded >>
  /\ voiceFrame

loadVoicesOldDone(result) ==
  /\ voicesReq > 0
  /\ result \in {"voices", "invalid", "reject"}
  /\ IF result = "reject"
     THEN UNCHANGED << voices, voicesLoaded >>
     ELSE /\ voices' = (IF result = "voices" THEN << "voice" >> ELSE << >>)
          /\ voicesLoaded' = TRUE
  /\ voicesLoading' = FALSE
  /\ voicesReq' = voicesReq - 1
  /\ voicesOutcome' = result
  /\ UNCHANGED << settings, status >>
  /\ voiceFrame

\* The voices handlers beside split and genImages.
NextVoices ==
  \/ \E enabled \in BOOLEAN : toggleElevenLabs(enabled)
  \/ \E result \in {"voices", "invalid", "reject"} : loadVoicesDone(result)
  \/ Len(scenes) < MaxScenes /\ add
  \/ \E t \in {"", "script"} : split(t)
  \/ \E n \in (-2)..MaxScenes : splitDone(n)
  \/ genImages
  \/ \E result \in {"images", "none", "reject"}, ok \in SUBSET Ids(bgScenes) :
       genImagesDone(result, ok)

SpecVoices == Init /\ [][NextVoices]_vars

NextVoicesOld ==
  \/ \E enabled \in BOOLEAN : toggleElevenLabsOld(enabled)
  \/ \E result \in {"voices", "invalid", "reject"} : loadVoicesOldDone(result)
  \/ Len(scenes) < MaxScenes /\ add
  \/ \E t \in {"", "script"} : split(t)
  \/ \E n \in (-2)..MaxScenes : splitDone(n)
  \/ genImages
  \/ \E result \in {"images", "none", "reject"}, ok \in SUBSET Ids(bgScenes) :
       genImagesDone(result, ok)

SpecVoicesOld == Init /\ [][NextVoicesOld]_vars

\* --------------------------------------------- stock search and uploads
MaxUploads == 1     \* stock searches, and uploads, in flight at once

mediaFrame ==
  /\ Mounted
  /\ UNCHANGED << table, loading, rendering, videoUrl, req, outcome, bgReq,
                  bgScenes >>
  /\ UNCHANGED driverVars
  /\ UNCHANGED oldVars
  /\ UNCHANGED uiVars
  /\ UNCHANGED projVars
  /\ UNCHANGED voiceVars
  /\ UNCHANGED avatarVars

searchStock(q) ==
  /\ IF q = ""
     THEN UNCHANGED << loadingStock, status, stockReq >>
     ELSE /\ loadingStock' = TRUE
          /\ status' = "Searching stock"
          /\ stockReq' = stockReq + 1
  /\ UNCHANGED << scenes, stockResults, upReq >>
  /\ mediaFrame

searchStockDone(result) ==
  /\ stockReq > 0
  /\ result \in {"results", "empty", "invalid", "reject"}
  /\ stockResults' = (IF result = "results" THEN << "media" >> ELSE << >>)
  /\ status' = (CASE result = "results" -> "Found"
                  [] result = "reject" -> "Search failed"
                  [] OTHER -> "No results")
  /\ loadingStock' = FALSE
  /\ stockReq' = stockReq - 1
  /\ UNCHANGED << scenes, upReq >>
  /\ mediaFrame

\* update(idx, 'background_path', val) on the list the handler captured.
update(list, idx, val) == [list EXCEPT ![idx + 1].background_path = val]

\* upload up to its await; without a file it returns at once.
upload(idx, chosen) ==
  /\ idx \in Indices(scenes)
  /\ IF chosen
     THEN /\ status' = "Uploading"
          /\ upReq' = Append(upReq, [idx |-> idx, scenes |-> scenes])
     ELSE UNCHANGED << status, upReq >>
  /\ UNCHANGED << scenes, stockResults, loadingStock, stockReq >>
  /\ mediaFrame

\* The oldest upload ends: with a background_path, with a payload without
\* one, or with an exception.
uploadDone(result) ==
  /\ upReq # << >>
  /\ result \in {"path", "nopath", "reject"}
  /\ CASE result = "path" ->
            /\ scenes' = update(Head(upReq).scenes, Head(upReq).idx, "upload")
            /\ status' = "Uploaded"
       [] result = "nopath" -> UNCHANGED << scenes, status >>
       [] OTHER -> status' = "Upload failed" /\ UNCHANGED scenes
  /\ upReq' = Tail(upReq)
  /\ UNCHANGED << stockResults, loadingStock, stockReq >>
  /\ mediaFrame

\* ------------------------------------------------------ every handler
\* The groups of handlers whose state is not the initial one: scene
\* editing, split and image generation, uploads, stock search, voices,
\* save and load.
Busy ==
  {f \in {"edit", "images", "upload", "stock", "voices", "project"} :
     CASE f = "edit" ->
            \/ draggedIdx # Null
            \/ Len(scenes) > MaxScenes
            \/ \E i \in 1..Len(scenes) : scenes[i].id # i
       [] f = "images" ->
            \/ bgReq # "idle"
            \/ \E i \in 1..Len(scenes) :
                 scenes[i].background_path \notin {"", "upload"}
       [] f = "upload" ->
            \/ upReq # << >>
            \/ \E i \in 1..Len(scenes) : scenes[i].background_path = "upload"
       [] f = "stock" -> stockReq > 0 \/ loadingStock \/ stockResults # << >>
       [] f = "voices" -> voicesOutcome # "none" \/ settings.useElevenLabs
       [] OTHER -> file # << >>}

\* At most one group of handlers has acted beside render.
Apart == Cardinality(Busy) <= 1

\* The handlers of the component around the first render of a session, the
\* driver walking a short table.
InitHandlers == table = ShortTable /\ InitCommon

NextHandlers ==
  \/ Len(scenes) < MaxScenes /\ add
  \/ \E idx \in 0..(MaxList - 1) : del(idx) /\ Apart'
  \/ \E idx \in 0..(MaxList - 1) :
       Len(scenes) <= MaxScenes /\ dup(idx) /\ Apart'
  \/ \E idx \in 0..(MaxList - 1) :
       draggedIdx = Null /\ dragStart(idx) /\ Apart'
  \/ \E idx \in 0..(MaxList - 1) : dragOver(idx) /\ Apart'
  \/ dragEnd
  \/ \E t \in {"", "script"} : Mounted /\ split(t) /\ Apart'
  \/ \E n \in (-2)..MaxScenes : splitDone(n) /\ Apart'
  \/ Mounted /\ Len(scenes) <= MaxScenes /\ genImages /\ Apart'
  \/ \E result \in {"images", "none", "reject"}, ok \in SUBSET Ids(bgScenes) :
       genImagesDone(result, ok) /\ Apart'
  \/ \E q \in {"", "cats"} : stockReq < MaxUploads /\ searchStock(q) /\ Apart'
  \/ \E result \in {"results", "empty", "invalid", "reject"} :
       searchStockDone(result)
  \/ \E idx \in 0..(MaxList - 1), chosen \in BOOLEAN :
       Len(upReq) < MaxUploads /\ upload(idx, chosen) /\ Apart'
  \/ \E result \in {"path", "nopath", "reject"} : uploadDone(result) /\ Apart'
  \/ Mounted /\ save /\ Apart'
  \/ Mounted /\ load
  \/ \E enabled \in BOOLEAN : Mounted /\ toggleElevenLabs(enabled) /\ Apart'
  \/ \E result \in {"voices", "invalid", "reject"} : loadVoicesDone(result)
  \/ Mounted /\ Len(scenes) <= MaxScenes /\ outcome = "none" /\ render
  \/ fetchResolved
  \/ \E why \in {"network", "unparsable", "null"} : renderCaught(why)
  \/ \E data \in {"filename", "error"} : renderResponse(data)
  \/ Timeout

SpecHandlers == InitHandlers /\ [][NextHandlers]_vars

\* ------------------------------------------------- the Lottie avatar
\* The keys of AVATAR_ANIMATIONS, and the values the prop may take.
AVATAR_ANIMATIONS == {"business", "casual", "robot"}

AvatarStyles == AVATAR_ANIMATIONS \cup {"unknown"}

avatarFrame ==
  /\ UNCHANGED table
  /\ UNCHANGED compVars
  /\ UNCHANGED driverVars
  /\ UNCHANGED oldVars
  /\ UNCHANGED uiVars
  /\ UNCHANGED projVars
  /\ UNCHANGED voiceVars
  /\ UNCHANGED mediaVars

\* The fetches in flight, none of them marked as the one of the current
\* effect any more.
superseded == [k \in 1..Len(fetches) |-> [fetches[k] EXCEPT !.current = FALSE]]

\* The parent passes another avatarStyle: the effect runs loadAnimation,
\* which throws before its fetch when the style is no key of the table.
\* Nothing cancels the fetches of the earlier effects.
loadAnimation(style) ==
  /\ style \in AvatarStyles
  /\ style # avatarStyle
  /\ avatarStyle' = style
  /\ IF style \in AVATAR_ANIMATIONS
     THEN /\ Len(fetches) < MaxFetches
          /\ avatarLoading' = TRUE
          /\ avatarError' = FALSE
          /\ fetches' = Append(superseded, [style |-> style, current |-> TRUE])
     ELSE /\ avatarLoading' = FALSE
          /\ avatarError' = TRUE
          /\ fetches' = superseded
  /\ UNCHANGED animationData
  /\ avatarFrame

\* The fetch at position i settles, with the animation or with a failure.
loadAnimationDone(i, ok) ==
  /\ i \in Indices(fetches)
  /\ IF ok
     THEN /\ animationData' = fetches[i + 1].style
          /\ avatarError' = FALSE
     ELSE /\ avatarError' = TRUE
          /\ UNCHANGED animationData
  /\ avatarLoading' = FALSE
  /\ fetches' = RemoveAt(fetches, i)
  /\ UNCHANGED avatarStyle
  /\ avatarFrame

NextAvatar ==
  \/ \E style \in AvatarStyles : loadAnimation(style)
  \/ \E i \in 0..(MaxFetches - 1), ok \in BOOLEAN : loadAnimationDone(i, ok)

SpecAvatar == Init /\ [][NextAvatar]_vars

\* ------------------------------------------- the earlier VideoCreator
\* The render handler of the earlier VideoCreator steps the percent and the
\* label through stgs with an interval of 3000 ms; its scene list, split,
\* genImages and buttons are those of the later component.
stgs ==
  << [progress |-> 10, stage |-> "Processing scenes..."],
     [progress |-> 25, stage |-> "Generating audio..."],
     [progress |-> 40, stage |-> "Processing images..."],
     [progress |-> 60, stage |-> "Compositing video..."],
     [progress |-> 80, stage |-> "Encoding video..."],
     [progress |-> 95, stage |-> "Finalizing..."] >>

\* clearInterval(iv) on the live interval with counter i.
clearIntervalNoop(i) == i

clearInterval(i) == NoInterval

renderOld ==
  /\ ~loading
  /\ Len(scenes) # 0
  /\ loading' = TRUE
  /\ rendering' = TRUE
  /\ progress' = 0
  /\ stage' = "Initializing..."
  /\ status' = "Rendering..."
  /\ iv' = 0
  /\ req' = "fetch"
  /\ outcome' = "pending"
  /\ sets' = << >>
  /\ UNCHANGED << table, scenes, videoUrl, bgReq, bgScenes >>
  /\ UNCHANGED << progressTimerRef, sinceStart, timers, stageIdx, threw,
                  tickPct, starts, stopCalls, stopArg, stopFrom, startFrom >>
  /\ UNCHANGED uiVars
  /\ UNCHANGED restVars

\* The callback of the interval runs.
intervalFires ==
  /\ iv # NoInterval
  /\ IF iv < Len(stgs)
     THEN /\ progress' = stgs[iv + 1].progress
          /\ stage' = stgs[iv + 1].stage
          /\ iv' = iv + 1
     ELSE UNCHANGED << progress, stage, iv >>
  /\ UNCHANGED << table, sets, progressTimerRef, sinceStart, timers, stageIdx,
                  threw, tickPct, starts, stopCalls, stopArg, stopFrom,
                  startFrom >>
  /\ UNCHANGED compVars
  /\ UNCHANGED uiVars
  /\ UNCHANGED restVars

\* What the continuation of render has written after it wrote the entries
\* of log, one after the other.
written(log) ==
  /\ sets' = log
  /\ progress' = log[Len(log)].pct
  /\ stage' = log[Len(log)].label

\* The catch and finally blocks: fetch rejected, res.json() rejected, or
\* data.video_path threw (data null) after the completion was written.
renderOldCaught(why) ==
  /\ \/ req = "fetch" /\ why = "network"
     \/ req = "json" /\ why \in {"unparsable", "null"}
  /\ iv' = clearInterval(iv)
  /\ IF why = "null"
     THEN written(<< [pct |-> 100, label |-> "Complete!"],
                     [pct |-> 0, label |-> ""] >>)
     ELSE written(<< [pct |-> 0, label |-> ""] >>)
  /\ status' = "Error"
  /\ rendering' = FALSE
  /\ loading' = FALSE
  /\ req' = "idle"
  /\ outcome' = why
  /\ UNCHANGED << table, scenes, videoUrl, bgReq, bgScenes >>
  /\ UNCHANGED << progressTimerRef, sinceStart, timers, stageIdx, threw,
                  tickPct, starts, stopCalls, stopArg, stopFrom, startFrom >>
  /\ UNCHANGED uiVars
  /\ UNCHANGED restVars

\* res.json() resolved with a payload: one that carries a video_path, or an
\* error payload without one.
renderOldResponse(data) ==
  /\ req = "json"
  /\ data \in {"video_path", "error"}
  /\ iv' = clearInterval(iv)
  /\ IF data = "video_path"
     THEN /\ written(<< [pct |-> 100, label |-> "Complete!"] >>)
          /\ videoUrl' = "file"
          /\ status' = "Video ready!"
     ELSE /\ written(<< [pct |-> 100, label |-> "Complete!"],
                        [pct |-> 0, label |-> ""] >>)
          /\ status' = "Failed"
          /\ UNCHANGED videoUrl
  /\ rendering' = FALSE
  /\ loading' = FALSE
  /\ req' = "idle"
  /\ outcome' = data
  /\ UNCHANGED << table, scenes, bgReq, bgScenes >>
  /\ UNCHANGED << progressTimerRef, sinceStart, timers, stageIdx, threw,
                  tickPct, starts, stopCalls, stopArg, stopFrom, startFrom >>
  /\ UNCHANGED uiVars
  /\ UNCHANGED restVars

NextOld ==
  \/ Len(scenes) < MaxScenes /\ add
  \/ \E text \in {"", "script"} : split(text)
  \/ \E n \in (-2)..MaxScenes : splitDone(n)
  \/ genImages
  \/ \E result \in {"images", "none", "reject"}, ok \in SUBSET Ids(bgScenes) :
       genImagesDone(result, ok)
  \/ renderNoScenes
  \/ renderOld
  \/ fetchResolved
  \/ \E why \in {"network", "unparsable", "null"} : renderOldCaught(why)
  \/ \E data \in {"video_path", "error"} : renderOldResponse(data)
  \/ intervalFires

SpecOld == Init /\ [][NextOld]_vars

\* The driver on its own, as its operations start() and stop(success) may be
\* called on any Stage Table.  start() is called when no timeout is pending,
\* or a second time in succession, before any time has passed for the run
\* that was just started (a double click).
InitDriver == table \in Tables /\ InitCommon

start ==
  /\ Cardinality(DOMAIN stageIdx) <= 1
  /\ \A t \in timers : t.cb = "tick" /\ t.remaining = StartDelay
  /\ startProgressAnimation
  /\ stopCalls' = 0
  /\ stopArg' = FALSE
  /\ stopFrom' = 0
  /\ UNCHANGED table
  /\ UNCHANGED compVars
  /\ UNCHANGED oldVars
  /\ UNCHANGED uiVars
  /\ UNCHANGED restVars

stop(success) ==
  /\ stopCalls = 0
  /\ Started
  /\ stopProgress(success)
  /\ UNCHANGED table
  /\ UNCHANGED compVars
  /\ UNCHANGED oldVars
  /\ UNCHANGED uiVars
  /\ UNCHANGED restVars

NextDriver ==
  \/ start
  \/ \E success \in BOOLEAN : stop(success)
  \/ Timeout

SpecDriver == InitDriver /\ [][NextDriver]_vars

\* The driver on the degenerate Stage Tables.
InitDegenerate == table \in DegenerateTables /\ InitCommon

SpecDegenerate == InitDegenerate /\ [][NextDriver]_vars

\* ------------------------------------------------------------------ claims
LastEntry == table[Len(table)]

\* The state is the one on screen T ms after the last start(): the last
\* callback ran no later than T and the next one is due after T.
OnScreenAt(T) ==
  /\ sinceStart <= T
  /\ \A t \in timers : sinceStart + t.remaining > T

\* C1: within one run, no tick writes a percent smaller than the one an
\* earlier tick of that run wrote.
C1_TickPercentNonDecreasing ==
  [][\A r \in (DOMAIN tickPct) \cap (DOMAIN tickPct') :
       tickPct'[r] >= tickPct[r]]_vars

C1_Witness ==
  /\ starts = 1 /\ stopCalls = 0
  /\ \E r \in DOMAIN tickPct : stageIdx[r] >= 1 /\ tickPct[r] > table[1].pct
  /\ \E t \in timers : t.cb = "interpolate" /\ t.age > 0

\* C2: there are never two pending scheduled callbacks that belong to
\* different runs (a second start() cancels the pending tick of the first).
C2_OneTickChain == Cardinality(LiveRuns(timers)) <= 1

\* C3: stopProgress(true) leaves the percent at 100 and the label at the
\* completion label, from whatever state it is called.
C3_StopTrueShowsComplete ==
  [][(stopCalls' = stopCalls + 1 /\ stopArg')
       => (progress' = 100 /\ stage' = "Complete!")]_vars

C3_Witness ==
  /\ stopCalls = 1 /\ stopArg /\ stopFrom = 0 /\ outcome = "filename"
  /\ progress = 100 /\ stage = "Complete!"

\* C4: stop(false) leaves the percent at 0, the label empty, no callback
\* pending and the rendering flag false.
C4_StopFalseResets ==
  [][(stopCalls' = stopCalls + 1 /\ ~stopArg')
       => (progress' = 0 /\ stage' = "" /\ ~rendering' /\ timers' = {})]_vars

C4_Witness ==
  /\ stopCalls = 1 /\ ~stopArg /\ stopFrom \in 40..95 /\ outcome = "error"
  /\ progress = 0 /\ stage = "" /\ ~rendering

\* C5: from a stop until the next start no callback is pending and the
\* percent and label stay the ones the stop forced.
C5_TerminalStateStays ==
  stopCalls >= 1 =>
    /\ timers = {}
    /\ progress = (IF stopArg THEN 100 ELSE 0)
    /\ stage = (IF stopArg THEN "Complete!" ELSE "")

C5_Witness ==
  /\ stopCalls = 1 /\ stopFrom \in 6..95 /\ timers = {}
  /\ progressTimerRef # 0 /\ ~loading

C8_StopOncePerOutcome ==
  /\ req # "idle" => (stopCalls = 0 /\ outcome = "pending")
  /\ (req = "idle" /\ outcome # "none") =>
       /\ stopCalls = 1
       /\ stopArg = (outcome = "filename")
       /\ outcome \in {"filename", "error", "network", "unparsable", "null"}

C8_Witness ==
  /\ req = "idle" /\ outcome = "unparsable" /\ stopCalls = 1 /\ ~stopArg
  /\ stopFrom > 0

\* C9: with a one-entry table neither start() nor the first tick throws, and
\* the percent and label stay at their start values.
C9_OneEntryTableDoesNotThrow ==
  (Len(table) = 1 /\ Started /\ stopCalls = 0) =>
    /\ ~threw
    /\ progress = 0
    /\ stage = table[1].label

C9_Witness ==
  /\ table = OneEntryTable /\ starts = 1 /\ stopCalls = 0 /\ timers = {}
  /\ sinceStart >= StartDelay /\ ~threw

StrictlyIncreasing(tbl) ==
  \A i \in 1..(Len(tbl) - 1) : tbl[i].pct < tbl[i + 1].pct

\* C10 as stated: the Stage Table is non-empty, its thresholds are strictly
\* increasing, the first is above 0 and the last is exactly 100.
C10_StageTableEndsAt100 ==
  /\ Len(table) >= 1
  /\ StrictlyIncreasing(table)
  /\ table[1].pct > 0
  /\ LastEntry.pct = 100

\* C10 amended: the Stage Table is non-empty, its thresholds are strictly
\* increasing, the first is above 0 and the last is 96, below 100.
C10_StageTableEndsBelow100 ==
  /\ Len(table) >= 1
  /\ StrictlyIncreasing(table)
  /\ table[1].pct > 0
  /\ LastEntry.pct = 96

C10_Witness ==
  /\ rendering /\ timers = {} /\ progress = 96 /\ stage = "Finalizing..."

\* A step in which start() runs: a run is added to the live ones.
StartStep == \E r \in DOMAIN stageIdx' : r \notin DOMAIN stageIdx

\* C11: right after start(), from whatever state it is called (idle, done at
\* 100, failed, or running), the stage index of the new run is 0, the percent
\* is 0, the label is the first entry's, and the first tick is scheduled,
\* with its handle in progressTimerRef.
C11_StartResets ==
  [][StartStep =>
       /\ progress' = 0
       /\ stage' = table[1].label
       /\ \E r \in DOMAIN stageIdx' :
            /\ r \notin DOMAIN stageIdx
            /\ stageIdx'[r] = 0
            /\ \E t \in timers' :
                 /\ t \notin timers
                 /\ t.run = r /\ t.cb = "tick" /\ t.remaining = StartDelay
                 /\ progressTimerRef' = t.id]_vars

C11_Witness ==
  /\ table = ShortTable /\ startFrom = 100 /\ stopCalls = 0
  /\ progress = 0 /\ stage = "A" /\ sinceStart = 0
  /\ \E t \in timers : t.cb = "tick" /\ t.remaining = StartDelay

\* C12: the entries are visited in order: a step leaves the stage index of a
\* run alone or raises it by exactly one, and when it raises it the label
\* becomes the label of the entry at the new index; between a start and a
\* stop the label changes in no other step.
C12_StagesInOrder ==
  [][/\ \A r \in (DOMAIN stageIdx) \cap (DOMAIN stageIdx') :
          \/ stageIdx'[r] = stageIdx[r]
          \/ /\ stageIdx'[r] = stageIdx[r] + 1
             /\ stage' = table[stageIdx'[r] + 1].label
     /\ (stage' # stage /\ ~StartStep /\ stopCalls' = stopCalls) =>
          \E r \in (DOMAIN stageIdx) \cap (DOMAIN stageIdx') :
            stageIdx'[r] = stageIdx[r] + 1]_vars

C12_Witness ==
  /\ table = ShortTable /\ starts = 1 /\ stopCalls = 0 /\ stage = "B"
  /\ \E r \in DOMAIN stageIdx : stageIdx[r] = 1
  /\ \E t \in timers : t.cb = "interpolate" /\ t.cur = 1

\* The percent from, rising linearly to the percent to over ms milliseconds,
\* rounded to the nearest whole number, elapsed milliseconds after it left.
InterpolatedOver(from, to, elapsed, ms) ==
  (2 * (from * ms + (to - from) * Min(elapsed, ms)) + ms) \div (2 * ms)

\* The longest time between two callbacks of an interpolation.
MaxStep == InterpolateDelay + MaxLate * LateUnit

C15_PercentWholeInRange ==
  /\ \A i \in 1..Len(table) : table[i].pct \in 0..100 /\ table[i].ms > 0
  /\ progress \in 0..100
  /\ \A r \in DOMAIN tickPct : tickPct[r] \in 0..100

\* 22.5 is shown as 23.
C15_Witness ==
  /\ table = ShortTable /\ starts = 1 /\ stopCalls = 0 /\ progress = 23
  /\ \E t \in timers : t.cb = "interpolate" /\ t.cur = 0 /\ t.age = 80

\* C16: in the component, where a run is started only when none is alive, at
\* most one scheduled callback is pending at any moment, a step schedules at
\* most one callback (a callback schedules its successor as its last
\* action), progressTimerRef holds the handle of the pending callback, and
\* the one clearTimeout of stopProgress leaves no callback pending.
C16_OnePendingCallbackInRef ==
  /\ Cardinality(timers) <= 1
  /\ Cardinality(DOMAIN stageIdx) <= 1
  /\ \A t \in timers : t.id = progressTimerRef /\ t.run \in DOMAIN stageIdx
  /\ stopCalls >= 1 => timers = {}

C16_Witness ==
  /\ req = "json" /\ stopCalls = 0 /\ progressTimerRef >= 2
  /\ \E t \in timers :
       t.cb = "interpolate" /\ t.cur = 2 /\ t.id = progressTimerRef

\* The run has come to rest at the last entry: no callback is pending and
\* the last entry's label and threshold are shown.
Quiescent ==
  /\ timers = {}
  /\ stageIdx = << >>
  /\ stage = LastEntry.label
  /\ progress = LastEntry.pct

\* C17: a run that is never stopped eventually quiesces: from any state in
\* which the render request is pending, either the request ends (and
\* stopProgress is called) or the run reaches the last entry with no
\* callback pending, after which no step but a stop changes the percent.
C17_RunQuiesces ==
  /\ (req # "idle") ~> (req = "idle" \/ Quiescent)
  /\ [][(Quiescent /\ stopCalls = 0 /\ stopCalls' = 0)
          => (Quiescent' /\ progress' = progress)]_vars

C17_Witness ==
  /\ req = "json" /\ stopCalls = 0 /\ Quiescent /\ sinceStart = MaxClock
  /\ progress = 96

\* C18: with an empty Stage Table, or one with an entry whose duration is
\* 0, neither start() nor any callback throws and the percent shown is
\* always a number from 0 to 100.
C18_DegenerateTablesAreSafe ==
  /\ ~threw
  /\ progress \in 0..100

\* C19: a render request is sent only by an invocation of render with at
\* least one scene, in the step in which start() runs, once, with no run
\* alive; start() runs in no other step; a request in flight is not sent
\* again; and the step in which a request fails (error payload or exception)
\* leaves no request in flight, no callback pending, the percent 0, the label
\* empty, the flags false and the error in the status.  With no scenes
\* neither start() runs nor a request is sent.
C19_OneStartOneRequest ==
  [][/\ (req = "idle" /\ req' = "fetch") =>
          /\ Len(scenes) >= 1
          /\ StartStep
          /\ timers = {} /\ Cardinality(timers') = 1
          /\ starts' = 1
          /\ status' = "Rendering..."
     /\ StartStep => (req = "idle" /\ req' = "fetch")
     /\ (req # "idle" /\ req' # req) =>
          \/ req = "fetch" /\ req' = "json"
          \/ req' = "idle"
     /\ (req # "idle" /\ req' = "idle" /\ outcome' # "filename") =>
          /\ outcome' \in {"error", "network", "unparsable", "null"}
          /\ status' = (IF outcome' = "error" THEN "Failed" ELSE "Error")
          /\ timers' = {} /\ progress' = 0 /\ stage' = ""
          /\ ~loading' /\ ~rendering'
     /\ (Len(scenes) = 0 /\ req = "idle") => (~StartStep /\ req' = "idle")]_vars

C19_Witness ==
  /\ req = "idle" /\ outcome = "network" /\ status = "Error"
  /\ stopFrom >= 5 /\ progress = 0 /\ stage = "" /\ timers = {}
  /\ ~loading /\ ~rendering

\* C20: in the earlier VideoCreator, when the render request ends with an
\* error payload, the percent is 0 and the label empty, and the handler has
\* at no point set the percent to 100 or the label to "Complete!".
C20_ErrorPayloadNeverShowsComplete ==
  outcome = "error" =>
    /\ progress = 0 /\ stage = ""
    /\ \A n \in 1..Len(sets) :
         sets[n].pct # 100 /\ sets[n].label # "Complete!"

\* C21: in the earlier VideoCreator the percents written by the interval
\* callback are strictly increasing, each the next entry of stgs; while the
\* request is pending the percent is at most 95; and once the response or
\* the error has been handled, no step before the next render changes the
\* percent or the label.
C21_IntervalIncreasesThenStops ==
  /\ [][(iv # NoInterval /\ iv' # NoInterval /\ iv' # iv) =>
          /\ iv' = iv + 1
          /\ progress' > progress
          /\ progress' = stgs[iv'].progress /\ stage' = stgs[iv'].stage]_vars
  /\ [](req # "idle" => (progress \in 0..95 /\ iv \in 0..Len(stgs)))
  /\ [][(req = "idle" /\ req' = "idle") =>
          (progress' = progress /\ stage' = stage)]_vars

C21_Witness ==
  /\ req = "json" /\ iv = Len(stgs) /\ progress = 95
  /\ stage = "Finalizing..." /\ sets = << >>

\* C22: after any sequence of add, dup and del (and image results) on a
\* scene list that starts empty, the ids of the scenes are pairwise distinct.
C22_SceneIdsDistinct ==
  \A i, j \in 1..Len(scenes) : scenes[i].id = scenes[j].id => i = j

\* A step in which dragOver acts during a drag.
DragOverStep ==
  draggedIdx # Null /\ draggedIdx' # Null /\ draggedIdx' # draggedIdx

\* C23: every dragOver(idx) during a drag, with idx different from
\* draggedIdx, yields a list of the same length in which the dragged scene
\* sits at index idx and the other scenes keep their order, and sets
\* draggedIdx to idx.
C23_DragOverPermutes ==
  [][DragOverStep =>
       /\ Len(scenes') = Len(scenes)
       /\ draggedIdx \in Indices(scenes)
       /\ At(scenes', draggedIdx') = At(scenes, draggedIdx)
       /\ RemoveAt(scenes', draggedIdx') = RemoveAt(scenes, draggedIdx)]_vars

\* C24: when the response of genImages is applied, the list keeps every
\* scene added, deleted, duplicated or moved since the request was sent: it
\* has the scenes it had just before, in the same order, and differs from
\* them only in background paths set to a generated image.
C24_ImageResultKeepsEdits ==
  [][(bgReq = "genImages" /\ bgReq' = "idle" /\ status' = "Generated") =>
       /\ Len(scenes') = Len(scenes)
       /\ \A i \in 1..Len(scenes) :
            /\ scenes'[i].id = scenes[i].id
            /\ \/ scenes'[i] = scenes[i]
               \/ scenes'[i].background_path = "img"]_vars

\* C25: loading the file that save wrote restores the project name, the
\* settings, the script, the scenes and the selected music that were saved.
C25_LoadRestoresSaved ==
  [][(file # << >> /\ status' = "Loaded!") =>
       /\ project' = file[1].project_name
       /\ settings' = file[1].settings
       /\ script' = file[1].script
       /\ scenes' = file[1].scenes
       /\ selectedMusic' = file[1].music]_vars

\* C26: videoUrl is non-null only when the most recent render attempt has
\* succeeded: not while a render request is pending, and not after one that
\* ended with an error payload or an exception.
C26_VideoOnlyAfterSuccess ==
  videoUrl # "null" =>
    /\ req = "idle"
    /\ outcome \in {"filename", "video_path"}

\* C27: at most one voices request is in flight; a request is sent only
\* when voicesLoading and voicesLoaded are both false; voicesLoading is true
\* exactly while a request is in flight; and voicesLoaded is true only after
\* a response that supplied the voice list.
C27_VoicesLoadedOnce ==
  /\ [](voicesReq <= 1)
  /\ [](voicesLoading <=> voicesReq > 0)
  /\ [](voicesLoaded => (voicesOutcome = "voices" /\ voices # << >>))
  /\ [][voicesReq' > voicesReq => (~voicesLoading /\ ~voicesLoaded)]_vars

\* C28: while the fetch for the current avatarStyle is in flight the
\* component is loading, and once every fetch has settled the component is
\* not loading and shows either an error or the animation fetched for the
\* current avatarStyle.
C28_AnimationOfCurrentStyle ==
  /\ (\E k \in 1..Len(fetches) : fetches[k].current) => avatarLoading
  /\ fetches = << >> =>
       /\ ~avatarLoading
       /\ avatarError \/ animationData = avatarStyle

\* A step of the progress driver or of the reconciler: a start, a timeout
\* that fires or is cleared, a call of stopProgress.
DriverStep ==
  \/ StartStep
  \/ \E t \in timers : t \notin timers'
  \/ stopCalls' # stopCalls

\* C29: percent and label change only in steps of the progress driver
\* (startProgressAnimation and its ticks) and of the reconciler
\* (stopProgress called from render); no step of another handler changes
\* them.
C29_ProgressWrittenByDriverOnly ==
  [][(progress' # progress \/ stage' # stage) => DriverStep]_vars

\* A render is pending with a percent under way, and an upload, a stock
\* search or a voices request has ended meanwhile.
C29_Witness ==
  /\ req # "idle"
  /\ progress \in 1..99
  /\ status \in {"Uploaded", "Found", "Loaded voices"}
====
